---------------------------- MODULE Spec2Model ----------------------------
(***************************************************************************)
(* A model of the presentation builder: the pydantic slide models          *)
(* (models.py), the document helpers and the layout of the sections        *)
(* (ppt_helpers.py), the four tool functions the agent exposes and the     *)
(* loop that calls them for the model (ppt_creation_agent.py).             *)
(*                                                                         *)
(* Encoding of Python values:                                              *)
(*   - an Optional[int] is a sequence: << >> is None, <<n>> is the int n;  *)
(*   - a section dictionary is [has_size, size]: has_size says whether the *)
(*     'size' key is present, size is its Optional value (header and      *)
(*     content are always present and do not take part in validation);     *)
(*   - a missing or None string argument is the empty string "" (both are  *)
(*     falsy, which is all the code tests);                                *)
(*   - a raised exception is the record [raised |-> message]; a function   *)
(*     that returns normally yields the dictionary it returns, or          *)
(*     [returned |-> value] for a helper that returns a plain value.       *)
(* Sizes are whole percentages.  The template file and the output          *)
(* directory exist, as the tests of the repository assume.                 *)
(***************************************************************************)
EXTENDS Integers, Sequences, FiniteSets, TLC

VARIABLES output, before, call, result, lifecycle, drawn,
          presentation_data, messages, pc

\* the variables of create_presentation_from_prompt
agent_vars == <<presentation_data, messages, pc>>

vars == <<output, before, call, result, lifecycle, drawn,
          presentation_data, messages, pc>>

----------------------------------------------------------------------------
(* Bounds of the model. *)

\* longest section list given to the validators (validation specification)
MaxValSections == 3
\* largest rows / columns count given to the validators
MaxDim == 3
\* longest section list given to a document operation
MaxSections == 1
\* slides the output directory holds at most, over all its documents
MaxSlides == 3
\* longest section list laid out, but for the one list of ManySections
MaxLayoutSections == 3
\* length of the one long section list laid out
ManySections == 28
\* length of the list whose gaps are wider than the content is: the 62
\* gaps of 0.2 inches between 63 sections are more than 12.33 inches
CrowdedSections == 63
\* add_slide calls that run at the same time
MaxCallers == 2
\* requests create_presentation_from_prompt makes to the model at most
MaxRequests == 4
\* longest initial slide list given to one create call
MaxCreateSlides == 3
\* longest section list given to one add_slide call
MaxAddSections == 2
\* most content lines of the section rendered
MaxContent == 3

----------------------------------------------------------------------------
(* Python values. *)

None == << >>

Some(n) == <<n>>

\* Python truthiness of an Optional[int]: None and 0 are falsy.
Truthy(v) == v # None /\ v[1] # 0

RECURSIVE SumSeq(_)
SumSeq(s) == IF s = << >> THEN 0 ELSE Head(s) + SumSeq(Tail(s))

\* [f(x) for x in s if p(x)] for the sizes of a section list: the sizes
\* that are not None, in order.
RECURSIVE NonNullSizes(_)
NonNullSizes(sections) ==
    IF sections = << >> THEN << >>
    ELSE IF Head(sections).size # None
         THEN <<Head(sections).size[1]>> \o NonNullSizes(Tail(sections))
         ELSE NonNullSizes(Tail(sections))

NoError == "ok"

Unsized == [has_size |-> FALSE, size |-> None]

NullSized == [has_size |-> TRUE, size |-> None]

Sized(n) == [has_size |-> TRUE, size |-> Some(n)]

\* All sequences over S of length at most n.
SeqsUpTo(S, n) == UNION {[1..k -> S] : k \in 0..n}

----------------------------------------------------------------------------
(* models.py *)

\* Section.validate_size: TRUE when the size passes.
validate_size(v) == ~(v # None /\ (v[1] <= 0 \/ v[1] > 100))

\* SlideModel.validate_dimension: TRUE when the count passes.
validate_dimension(v) == ~(v # None /\ v[1] <= 0)

\* The band test of SlideModel.validate_sections.
ModelTotalOutOfBand(total_size) == total_size < 98 \/ total_size > 102

\* SlideModel.validate_sections, with columns and rows as info.data holds
\* them; v is the list of validated Section objects (a missing 'size' key
\* and size = None both give Section.size = None).
validate_sections(columns, rows, v) ==
    IF v = << >> THEN NoError
    ELSE IF Truthy(rows) /\ Truthy(columns)
         THEN "Cannot specify both rows and columns"
    ELSE IF Truthy(columns) /\ Len(v) # columns[1]
         THEN "Number of sections must match number of columns"
    ELSE IF Truthy(rows) /\ Len(v) # rows[1]
         THEN "Number of sections must match number of rows"
    ELSE LET sizes == NonNullSizes(v) IN
         IF sizes # << >>
         THEN IF Len(sizes) # Len(v)
              THEN "Cannot mix sized and unsized sections"
              ELSE IF ModelTotalOutOfBand(SumSeq(sizes))
                   THEN "Section sizes must sum to approximately 100%"
                   ELSE NoError
         ELSE NoError

\* SlideModel(slide_title = ..., columns, rows, sections): the field
\* validators run in field order; a field that fails is left out of
\* info.data and the construction raises whatever the later fields say.
SlideModel(columns, rows, sections) ==
    LET okc == validate_dimension(columns)
        okr == validate_dimension(rows)
        oks == \A i \in 1..Len(sections) : validate_size(sections[i].size)
        data_columns == IF okc THEN columns ELSE None
        data_rows == IF okr THEN rows ELSE None
    IN  IF ~okc \/ ~okr THEN "Dimension must be greater than 0"
        ELSE IF ~oks THEN "Size must be between 0 and 100"
        ELSE validate_sections(data_columns, data_rows, sections)

----------------------------------------------------------------------------
(* ppt_helpers.py: the checks of add_slide *)

\* A band test that shuts out its two end points.
HelperTotalOutOfBand_open(total_size) == total_size <= 98 \/ total_size >= 102

\* The band test of add_slide.
HelperTotalOutOfBand(total_size) == total_size < 98 \/ total_size > 102

\* add_slide looking for the document only once the slide has passed.
add_slide_checks_file_last(exists, name, slide_title, columns, rows, sections) ==
    IF name = "" THEN "ppt_name is required"
    ELSE IF slide_title = "" THEN "slide_title is required"
    ELSE IF Truthy(columns) /\ Truthy(rows)
         THEN "Cannot specify both rows and columns"
    ELSE IF Truthy(columns) /\ Len(sections) # columns[1]
         THEN "Number of sections must match number of columns"
    ELSE IF Truthy(rows) /\ Len(sections) # rows[1]
         THEN "Number of sections must match number of rows"
    ELSE IF NonNullSizes(sections) # << >>
            /\ HelperTotalOutOfBand(SumSeq(NonNullSizes(sections)))
         THEN "Section sizes must sum to approximately 100%"
    ELSE IF ~exists THEN "File not found"
    ELSE NoError

\* add_slide looking for the document before it tests its required fields.
add_slide_checks_file_first(exists, name, slide_title, columns, rows, sections) ==
    IF ~exists THEN "File not found"
    ELSE IF name = "" THEN "ppt_name is required"
    ELSE IF slide_title = "" THEN "slide_title is required"
    ELSE add_slide_checks_file_last(exists, name, slide_title, columns, rows,
                                    sections)

\* add_slide up to the point where it opens the document: the message of
\* the exception it raises, or NoError.  exists is os.path.exists of the
\* document's file.
add_slide_checks(exists, name, slide_title, columns, rows, sections) ==
    IF name = "" THEN "ppt_name is required"
    ELSE IF slide_title = "" THEN "slide_title is required"
    ELSE IF ~exists THEN "File not found"
    ELSE IF Truthy(columns) /\ Truthy(rows)
         THEN "Cannot specify both rows and columns"
    ELSE IF Truthy(columns) /\ Len(sections) # columns[1]
         THEN "Number of sections must match number of columns"
    ELSE IF Truthy(rows) /\ Len(sections) # rows[1]
         THEN "Number of sections must match number of rows"
    ELSE LET has_sizes == \E i \in 1..Len(sections) : sections[i].has_size
             sizes == NonNullSizes(sections)
         IN  IF has_sizes
             THEN IF ~(\A i \in 1..Len(sections) : sections[i].has_size)
                  THEN "Cannot mix sized and unsized sections"
                  ELSE IF sizes # << >> /\ HelperTotalOutOfBand(SumSeq(sizes))
                       THEN "Section sizes must sum to approximately 100%"
                       ELSE NoError
             ELSE NoError

----------------------------------------------------------------------------
(* The output directory: one document file per name.  A document is the    *)
(* sequence of its slides; a slide is its title text and the layout drawn  *)
(* on it: "title" for the title slide, "basic" when no region is drawn,    *)
(* "columns" or "rows" when one region per section is drawn.               *)

DocNames == {"a", "b"}

NoFile == [exists |-> FALSE, slides |-> << >>]

File(slides) == [exists |-> TRUE, slides |-> slides]

\* os.path.exists of output/<name>.pptx
path_exists(out, name) == name \in DocNames /\ out[name].exists

TotalSlides(out) == SumSeq([i \in 1..2 |-> Len(out[<<"a", "b">>[i]].slides)])

Raised(msg) == [raised |-> msg]

Returned(v) == [returned |-> v]

IsRaised(r) == "raised" \in DOMAIN r

----------------------------------------------------------------------------
(* ppt_helpers.py: the document operations.  Each yields                   *)
(* [out |-> the output directory afterwards, res |-> Raised or Returned].  *)

\* add_slide taking a count of 0 for a count that was given.
new_slide_any_count(slide_title, columns, rows, sections) ==
    IF columns # None
    THEN [title |-> slide_title, layout |-> "columns"]
    ELSE IF rows # None
         THEN [title |-> slide_title, layout |-> "rows"]
         ELSE [title |-> slide_title, layout |-> "basic"]

\* The slide add_slide draws once its checks have passed.
new_slide(slide_title, columns, rows, sections) ==
    IF Truthy(columns)
    THEN [title |-> slide_title, layout |-> "columns"]
    ELSE IF Truthy(rows)
         THEN [title |-> slide_title, layout |-> "rows"]
         ELSE [title |-> slide_title, layout |-> "basic"]

\* add_slide putting the new slide in front of the slides it opened.
saved_slides_front(slides, slide) == <<slide>> \o slides

\* What add_slide saves: the opened document with the new slide appended.
saved_slides(slides, slide) == Append(slides, slide)

\* add_slide saving the slide before it has tested the layout.
add_slide_save_early(out, name, slide_title, columns, rows, sections) ==
    LET err == add_slide_checks(path_exists(out, name), name, slide_title,
                                columns, rows, sections)
        saved == [out EXCEPT ![name] =
                    File(saved_slides(out[name].slides,
                         new_slide(slide_title, columns, rows, sections)))]
    IN  IF err = NoError THEN [out |-> saved, res |-> Returned("None")]
        ELSE IF path_exists(out, name) /\ slide_title # ""
             THEN [out |-> saved, res |-> Raised(err)]
             ELSE [out |-> out, res |-> Raised(err)]

add_slide(out, name, slide_title, columns, rows, sections) ==
    LET err == add_slide_checks(path_exists(out, name), name, slide_title,
                                columns, rows, sections)
    IN  IF err # NoError
        THEN [out |-> out, res |-> Raised(err)]
        ELSE [out |-> [out EXCEPT ![name] =
                         File(saved_slides(out[name].slides,
                              new_slide(slide_title, columns, rows, sections)))],
              res |-> Returned("None")]

\* One pass of the loop of create_ppt over a slide dictionary.
add_slide_data(out, name, slide_data) ==
    IF slide_data.layout = "columns" /\ Truthy(slide_data.columns)
    THEN add_slide(out, name, slide_data.slide_title, slide_data.columns, None,
                   slide_data.sections)
    ELSE IF slide_data.layout = "rows" /\ Truthy(slide_data.rows)
    THEN add_slide(out, name, slide_data.slide_title, None, slide_data.rows,
                   slide_data.sections)
    ELSE IF slide_data.sections # << >>
    THEN add_slide(out, name, slide_data.slide_title,
                   Some(Len(slide_data.sections)), None, slide_data.sections)
    ELSE add_slide(out, name, slide_data.slide_title, None, None, << >>)

\* The loop of create_ppt passing over a slide whose add_slide raises.
RECURSIVE add_slides_skipping(_, _, _)
add_slides_skipping(out, name, slides) ==
    IF slides = << >> THEN [out |-> out, res |-> Returned(name)]
    ELSE add_slides_skipping(add_slide_data(out, name, Head(slides)).out,
                             name, Tail(slides))

\* The loop of create_ppt: the first add_slide that raises ends it.
RECURSIVE add_slides(_, _, _)
add_slides(out, name, slides) ==
    IF slides = << >> THEN [out |-> out, res |-> Returned(name)]
    ELSE LET r == add_slide_data(out, name, Head(slides))
         IN  IF IsRaised(r.res) THEN r
             ELSE add_slides(r.out, name, Tail(slides))

title_slide(title) == [title |-> title, layout |-> "title"]

\* create_ppt without its test of the name.
create_ppt_unchecked(out, name, title, slides) ==
    add_slides(IF name \in DocNames
               THEN [out EXCEPT ![name] = File(<<title_slide(title)>>)]
               ELSE out,
               name, slides)

create_ppt(out, name, title, slides) ==
    IF name = "" THEN [out |-> out, res |-> Raised("Name is required")]
    ELSE add_slides([out EXCEPT ![name] = File(<<title_slide(title)>>)],
                    name, slides)

\* The loop of create_ppt_from_json: a slide without title is passed over,
\* the first add_slide that raises ends it.
RECURSIVE add_titled_slides(_, _, _)
add_titled_slides(out, name, slides) ==
    IF slides = << >> THEN [out |-> out, res |-> Returned(name)]
    ELSE IF Head(slides).slide_title = ""
    THEN add_titled_slides(out, name, Tail(slides))
    ELSE LET r == add_slide_data(out, name, Head(slides))
         IN  IF IsRaised(r.res) THEN r
             ELSE add_titled_slides(r.out, name, Tail(slides))

\* create_ppt_from_json of {'presentation': {name, title, slides}}
create_ppt_from_json(out, name, title, slides) ==
    IF name = ""
    THEN [out |-> out, res |-> Raised("Presentation name is required")]
    ELSE LET created == create_ppt(out, name, title, << >>)
         IN  IF IsRaised(created.res) THEN created
             ELSE add_titled_slides(created.out, name, slides)

\* delete_ppt taking a missing file for a file already deleted.
delete_ppt_quiet(out, name) ==
    IF name = "" THEN [out |-> out, res |-> Raised("Name is required")]
    ELSE IF ~path_exists(out, name)
         THEN [out |-> out, res |-> Returned("None")]
         ELSE [out |-> [out EXCEPT ![name] = NoFile], res |-> Returned("None")]

delete_ppt(out, name) ==
    IF name = "" THEN [out |-> out, res |-> Raised("Name is required")]
    ELSE IF ~path_exists(out, name)
         THEN [out |-> out, res |-> Raised("File not found")]
         ELSE [out |-> [out EXCEPT ![name] = NoFile], res |-> Returned("None")]

----------------------------------------------------------------------------
(* ppt_creation_agent.py: the four tool functions.  Each catches every     *)
(* exception of the helper it calls and returns a dictionary.              *)

create_presentation(out, name, title, slides) ==
    LET r == create_ppt(out, name, title, slides)
    IN  IF IsRaised(r.res)
        THEN [out |-> r.out, res |-> [error |-> r.res.raised]]
        ELSE [out |-> r.out,
              res |-> [file_path |-> r.res.returned, title |-> title]]

\* The add_slide tool letting the exception of the helper through.
tool_add_slide_uncaught(out, ppt_name, slide_title, columns, rows, layout, sections) ==
    LET r == IF layout = "COLUMN"
             THEN add_slide(out, ppt_name, slide_title,
                            Some(Len(sections)), None, sections)
             ELSE IF layout = "ROW"
             THEN add_slide(out, ppt_name, slide_title,
                            None, Some(Len(sections)), sections)
             ELSE add_slide(out, ppt_name, slide_title, None, None, << >>)
    IN  IF IsRaised(r.res)
        THEN r
        ELSE [out |-> r.out, res |-> [message |-> "Slide added successfully"]]

\* layout is "COLUMN", "ROW" or "None"; columns and rows are accepted and
\* never read.
tool_add_slide(out, ppt_name, slide_title, columns, rows, layout, sections) ==
    LET r == IF layout = "COLUMN"
             THEN add_slide(out, ppt_name, slide_title,
                            Some(Len(sections)), None, sections)
             ELSE IF layout = "ROW"
             THEN add_slide(out, ppt_name, slide_title,
                            None, Some(Len(sections)), sections)
             ELSE add_slide(out, ppt_name, slide_title, None, None, << >>)
    IN  IF IsRaised(r.res)
        THEN [out |-> r.out, res |-> [error |-> r.res.raised]]
        ELSE [out |-> r.out, res |-> [message |-> "Slide added successfully"]]

\* save_presentation without its test of the file.
save_presentation_unchecked(out, name) ==
    [out |-> out, res |-> [file_path |-> name]]

save_presentation(out, name) ==
    IF ~path_exists(out, name)
    THEN [out |-> out, res |-> [error |-> "Presentation does not exist"]]
    ELSE [out |-> out, res |-> [file_path |-> name]]

delete_presentation(out, name) ==
    LET r == delete_ppt(out, name)
    IN  IF IsRaised(r.res)
        THEN [out |-> r.out, res |-> [error |-> r.res.raised]]
        ELSE [out |-> r.out,
              res |-> [message |-> "Presentation deleted successfully"]]

----------------------------------------------------------------------------
(* Arguments the operations are called with. *)

ArgNames == {""} \cup DocNames

PresTitles == {"P"}

SlideTitles == {"", "s"}

ToolLayouts == {"None", "COLUMN", "ROW"}

\* the columns / rows arguments given to the add_slide tool
ToolDims == {None, Some(MaxSections)}

\* section lists given to the add_slide tool: unsized, sized to 100 in
\* all, and one sized to 50 in all
SectionLists ==
    SeqsUpTo({Unsized, Sized(100)}, MaxSections) \cup {<<Sized(50)>>}

\* Slide dictionaries given to create_ppt: a title-only slide with and
\* without its title, a slide of one unsized section under each layout
\* key, one that names both counts, and one whose sizes do not sum to 100.
SlideDicts ==
    { [slide_title |-> "s", layout |-> "None", columns |-> None,
       rows |-> None, sections |-> << >>],
      [slide_title |-> "", layout |-> "None", columns |-> None,
       rows |-> None, sections |-> << >>],
      [slide_title |-> "s", layout |-> "rows", columns |-> None,
       rows |-> Some(1), sections |-> <<Unsized>>],
      [slide_title |-> "s", layout |-> "columns", columns |-> Some(1),
       rows |-> Some(1), sections |-> <<Unsized>>],
      [slide_title |-> "s", layout |-> "None", columns |-> None,
       rows |-> None, sections |-> <<Sized(50)>>] }

\* The initial slide lists given to create_ppt: with the title slide they
\* fit the output directory.
InitSlideLists == SeqsUpTo(SlideDicts, MaxSlides - 1)

NoCall == [op |-> "init", name |-> "", title |-> "", layout |-> "None",
           columns |-> None, rows |-> None, sections |-> << >>,
           slides |-> << >>]

\* create_presentation_from_prompt has not been called
NoConversation ==
    /\ presentation_data = [status |-> "none"]
    /\ messages = << >>
    /\ pc = "idle"

----------------------------------------------------------------------------
(* The tool functions called one after another on the output directory.    *)
(* A call runs to its end in one step; the caller then takes the result    *)
(* before it calls again.  call is the call that has returned (NoCall when *)
(* none is waiting to be taken), result what it returned and before the    *)
(* directory as the call found it.  lifecycle records, per name, whether   *)
(* the last create or successful delete of that name was a create or a     *)
(* delete ("none" before either).  drawn, the shapes of the regions drawn  *)
(* on a slide, and the variables of the conversation are not followed      *)
(* here.                                                                   *)

Init ==
    /\ output = [n \in DocNames |-> NoFile]
    /\ before = output
    /\ call = NoCall
    /\ result = Returned("None")
    /\ lifecycle = [n \in DocNames |-> "none"]
    /\ drawn = << >>
    /\ NoConversation

Done(r, c) ==
    /\ call = NoCall
    /\ TotalSlides(r.out) <= MaxSlides
    /\ output' = r.out
    /\ before' = output
    /\ call' = c
    /\ result' = r.res
    /\ lifecycle' =
         [n \in DocNames |->
            IF n = c.name /\ c.op = "create_presentation" THEN "created"
            ELSE IF n = c.name /\ c.op = "delete_presentation"
                    /\ output[n].exists /\ ~r.out[n].exists THEN "deleted"
            ELSE lifecycle[n]]
    /\ UNCHANGED <<drawn, agent_vars>>

CreatePresentation ==
    \E name \in ArgNames, title \in PresTitles,
       slides \in InitSlideLists :
        Done(create_presentation(output, name, title, slides),
             [NoCall EXCEPT !.op = "create_presentation", !.name = name,
                            !.title = title, !.slides = slides])

AddSlide ==
    \E ppt_name \in ArgNames, slide_title \in SlideTitles,
       columns \in ToolDims, rows \in ToolDims, layout \in ToolLayouts,
       sections \in SectionLists :
        Done(tool_add_slide(output, ppt_name, slide_title, columns, rows,
                            layout, sections),
             [NoCall EXCEPT !.op = "add_slide", !.name = ppt_name,
                            !.title = slide_title, !.columns = columns,
                            !.rows = rows, !.layout = layout,
                            !.sections = sections])

SavePresentation ==
    \E name \in ArgNames :
        Done(save_presentation(output, name),
             [NoCall EXCEPT !.op = "save_presentation", !.name = name])

DeletePresentation ==
    \E name \in ArgNames :
        Done(delete_presentation(output, name),
             [NoCall EXCEPT !.op = "delete_presentation", !.name = name])

\* The caller takes the result of the call that returned.
TakeResult ==
    /\ call # NoCall
    /\ call' = NoCall
    /\ result' = Returned("None")
    /\ before' = output
    /\ UNCHANGED <<output, lifecycle, drawn, agent_vars>>

Next ==
    \/ CreatePresentation
    \/ AddSlide
    \/ SavePresentation
    \/ DeletePresentation
    \/ TakeResult

Spec == Init /\ [][Next]_vars

----------------------------------------------------------------------------
(* The two validation sites on one slide description: SlideModel is        *)
(* constructed from it, and add_slide is called with it on the existing    *)
(* document "a".  result.model and result.helper are the message each      *)
(* raised (NoError when it accepted), "pending" until it has run.          *)

ValSizes == {0, 1, 48, 49, 51, 52, 100, 101}

ValSectionLists ==
    SeqsUpTo({Unsized, NullSized} \cup {Sized(n) : n \in ValSizes},
             MaxValSections)

ValDims == {None} \cup {Some(k) : k \in 0..MaxDim}

InitValidate ==
    /\ output = [n \in DocNames |->
                   IF n = "a" THEN File(<<title_slide("P")>>) ELSE NoFile]
    /\ before = output
    /\ lifecycle = [n \in DocNames |-> IF n = "a" THEN "created" ELSE "none"]
    /\ \E columns \in ValDims, rows \in ValDims, sections \in ValSectionLists :
         call = [NoCall EXCEPT !.op = "validate", !.name = "a", !.title = "s",
                               !.columns = columns, !.rows = rows,
                               !.sections = sections]
    /\ result = [model |-> "pending", helper |-> "pending"]
    /\ drawn = << >>
    /\ NoConversation

ConstructSlideModel ==
    /\ result.model = "pending"
    /\ result' = [result EXCEPT
                    !.model = SlideModel(call.columns, call.rows, call.sections)]
    /\ UNCHANGED <<output, before, call, lifecycle, drawn, agent_vars>>

HelperAddSlide ==
    /\ result.helper = "pending"
    /\ LET r == add_slide(output, call.name, call.title, call.columns,
                          call.rows, call.sections)
       IN  /\ output' = r.out
           /\ result' = [result EXCEPT
                           !.helper = IF IsRaised(r.res) THEN r.res.raised
                                      ELSE NoError]
    /\ before' = output
    /\ UNCHANGED <<call, lifecycle, drawn, agent_vars>>

NextValidate == ConstructSlideModel \/ HelperAddSlide

SpecValidate == InitValidate /\ [][NextValidate]_vars

----------------------------------------------------------------------------
(* Properties of the validation sites (SpecValidate). *)

Validated ==
    /\ call.op = "validate"
    /\ result.model # "pending"
    /\ result.helper # "pending"

ModelAccepts == result.model = NoError

HelperAccepts == result.helper = NoError

\* every section carries a size that is not None, and there is one
AllSized(sections) ==
    /\ sections # << >>
    /\ \A i \in 1..Len(sections) : sections[i].size # None

\* some section carries a size that is not None and some does not
PartlySized(sections) ==
    /\ \E i \in 1..Len(sections) : sections[i].size # None
    /\ \E i \in 1..Len(sections) : sections[i].size = None

TotalSize == SumSeq(NonNullSizes(call.sections))

\* nothing but the sum of the sizes can be held against the slide: no
\* count is given, or one positive count that the section list meets, and
\* every size lies in (0, 100]
OnlySumInQuestion ==
    /\ call.columns = None \/ call.rows = None
    /\ call.columns # None => call.columns[1] = Len(call.sections)
    /\ call.rows # None => call.rows[1] = Len(call.sections)
    /\ \A i \in 1..Len(call.sections) :
         call.sections[i].size[1] \in 1..100

(* C1: for a slide whose sections all carry a size, each validator accepts *)
(* only when the sizes sum to a value in [98, 102], and when nothing else  *)
(* is wrong with the slide it accepts exactly then: 98 and 102 pass, 97    *)
(* and 103 are rejected.                                                   *)
C1_SizeSumBand ==
    (Validated /\ AllSized(call.sections)) =>
        /\ ModelAccepts => TotalSize \in 98..102
        /\ HelperAccepts => TotalSize \in 98..102
        /\ OnlySumInQuestion =>
             /\ ModelAccepts <=> TotalSize \in 98..102
             /\ HelperAccepts <=> TotalSize \in 98..102

\* three sized sections summing to 98 have passed both validators
C1_Witness ==
    /\ Validated
    /\ AllSized(call.sections)
    /\ Len(call.sections) = 3
    /\ TotalSize = 98
    /\ ModelAccepts
    /\ HelperAccepts

(* C2: a section list in which some but not all sections carry a non-null  *)
(* size is rejected by both validators, whether the unsized sections omit  *)
(* the 'size' key or carry size = None.                                    *)
C2_PartialSizingRejected ==
    (Validated /\ PartlySized(call.sections)) =>
        ~ModelAccepts /\ ~HelperAccepts

(* C3: when columns (or rows) is a positive integer, each validator        *)
(* accepts the slide only if the number of sections equals it, for every   *)
(* section count including zero.                                           *)
C3_CountMatches ==
    Validated =>
        /\ (call.columns # None /\ call.columns[1] > 0
              /\ (ModelAccepts \/ HelperAccepts))
           => Len(call.sections) = call.columns[1]
        /\ (call.rows # None /\ call.rows[1] > 0
              /\ (ModelAccepts \/ HelperAccepts))
           => Len(call.sections) = call.rows[1]

(* C4: the two validation sites apply identical rules: for every columns   *)
(* and rows (absent or a positive count) and every section list, SlideModel*)
(* construction rejects the slide description if and only if add_slide     *)
(* rejects it.                                                             *)
C4_SitesAgree ==
    (/\ Validated
     /\ call.columns # None => call.columns[1] > 0
     /\ call.rows # None => call.rows[1] > 0)
    => (ModelAccepts <=> HelperAccepts)

----------------------------------------------------------------------------
(* Properties of the tool functions (Spec). *)

ToolOps == {"create_presentation", "add_slide", "save_presentation",
            "delete_presentation"}

IsError == "error" \in DOMAIN result

(* C5: a request that gives both a rows count and a columns count for one  *)
(* slide is rejected with an error and appends no slide, through the       *)
(* add_slide tool and through the slide dictionaries of a create call.     *)
C5_BothCountsRejected ==
    /\ (call.op = "add_slide" /\ Truthy(call.columns) /\ Truthy(call.rows))
       => (IsError /\ output = before)
    /\ (call.op = "create_presentation"
          /\ \E i \in 1..Len(call.slides) :
               Truthy(call.slides[i].columns) /\ Truthy(call.slides[i].rows))
       => IsError

(* C6 as claimed: the add_slide tool called with a non-empty name that has *)
(* no document returns a file-not-found error and creates nothing,         *)
(* whatever its other arguments.                                           *)
C6_MissingDocument_AnyTitle ==
    (call.op = "add_slide" /\ call.name # ""
       /\ ~path_exists(before, call.name))
    => (result = [error |-> "File not found"] /\ output = before)

(* C6: the add_slide tool called with a non-empty name that has no         *)
(* document and a non-empty slide title returns (never raises) a           *)
(* file-not-found error and creates no document, whatever layout and       *)
(* sections it is given.                                                   *)
C6_MissingDocument ==
    (call.op = "add_slide" /\ call.name # "" /\ call.title # ""
       /\ ~path_exists(before, call.name))
    => (result = [error |-> "File not found"] /\ output = before)

\* a column slide whose sizes sum to 50 was asked of a missing document
C6_Witness ==
    /\ call.op = "add_slide"
    /\ call.name = "b"
    /\ call.title = "s"
    /\ ~before["b"].exists
    /\ before["a"].exists
    /\ call.layout = "COLUMN"
    /\ call.sections = <<Sized(50)>>
    /\ result = [error |-> "File not found"]

(* C7: delete is not a no-op on a missing document: the delete of a name   *)
(* whose last create was not followed by a delete succeeds and removes the *)
(* document, leaving the others; the delete of a name deleted since its    *)
(* last create returns a file-not-found error and leaves the directory     *)
(* unchanged.                                                              *)
C7_DeleteTwice ==
    [][(call'.op = "delete_presentation" /\ call'.name \in DocNames) =>
         /\ lifecycle[call'.name] = "created" =>
              /\ result' = [message |-> "Presentation deleted successfully"]
              /\ ~output'[call'.name].exists
              /\ \A n \in DocNames \ {call'.name} : output'[n] = output[n]
         /\ lifecycle[call'.name] = "deleted" =>
              /\ result' = [error |-> "File not found"]
              /\ output' = output]_vars

\* the second delete of a name has returned
C7_Witness ==
    /\ call.op = "delete_presentation"
    /\ call.name \in DocNames
    /\ lifecycle[call.name] = "deleted"
    /\ IsError
    /\ output = before

(* C8: create with an empty name returns the error 'Name is required' and  *)
(* leaves the documents of the output directory as they were.              *)
C8_EmptyNameCreate ==
    (call.op = "create_presentation" /\ call.name = "")
    => (result = [error |-> "Name is required"] /\ output = before)

\* a create with an empty name and initial slides, with a document present
C8_Witness ==
    /\ call.op = "create_presentation"
    /\ call.name = ""
    /\ call.slides # << >>
    /\ before["a"].exists
    /\ IsError

(* C9: save_presentation returns the file path if and only if the file of  *)
(* the name exists when it is called, otherwise the error that the         *)
(* presentation does not exist; either way every document is unchanged.    *)
C9_SaveReadsOnly ==
    call.op = "save_presentation" =>
        /\ ("file_path" \in DOMAIN result) <=> path_exists(before, call.name)
        /\ path_exists(before, call.name) => result = [file_path |-> call.name]
        /\ ~path_exists(before, call.name)
             => result = [error |-> "Presentation does not exist"]
        /\ output = before

\* a save of a missing name while another document exists
C9_Witness ==
    /\ call.op = "save_presentation"
    /\ call.name = "b"
    /\ ~before["b"].exists
    /\ Len(before["a"].slides) > 1
    /\ IsError

(* C10: each tool function returns a dictionary that carries a success     *)
(* payload (file_path or message) or an 'error', never both and never      *)
(* neither, and raises nothing.                                            *)
C10_ResultShape ==
    call.op \in ToolOps =>
        /\ "raised" \notin DOMAIN result
        /\ IsError # (DOMAIN result \cap {"file_path", "message"} # {})

\* an add_slide whose helper raised has returned its error
C10_Witness ==
    /\ call.op = "add_slide"
    /\ call.layout = "ROW"
    /\ path_exists(before, call.name)
    /\ IsError
    /\ DOMAIN result = {"error"}

----------------------------------------------------------------------------
(* Properties of the slides the calls append (Spec). *)

ToolSucceeded == call.op \in ToolOps /\ ~IsError

\* the slides of the document the returned call named
NamedSlides == output[call.name].slides

(* C11: an add_slide tool call with no layout and a non-empty section list *)
(* does what the same call with layout 'COLUMN' does: wherever that call   *)
(* succeeds, the call without layout returns the same result and leaves    *)
(* the same document, with one column region per section.                  *)
C11_AbsentLayoutInfersColumns ==
    LET inferred == tool_add_slide(before, call.name, call.title, call.columns,
                                   call.rows, "COLUMN", call.sections)
    IN  ( /\ call.op = "add_slide"
          /\ call.layout = "None"
          /\ call.sections # << >>
          /\ "message" \in DOMAIN inferred.res )
        => /\ result = inferred.res
           /\ output = inferred.out
           /\ NamedSlides[Len(NamedSlides)].layout = "columns"

(* C13: a successful add_slide on an existing document adds exactly one    *)
(* slide to it: the new slide is the last and has the given title, the     *)
(* slides that were there are unchanged and in their order, and every      *)
(* other document is as it was.                                            *)
C13_AddSlideAppendsOne ==
    (call.op = "add_slide" /\ ~IsError) =>
        /\ path_exists(before, call.name)
        /\ path_exists(output, call.name)
        /\ Len(NamedSlides) = Len(before[call.name].slides) + 1
        /\ NamedSlides[Len(NamedSlides)].title = call.title
        /\ SubSeq(NamedSlides, 1, Len(NamedSlides) - 1)
             = before[call.name].slides
        /\ \A n \in DocNames \ {call.name} : output[n] = before[n]

\* a slide with regions added to one of two existing documents
C13_Witness ==
    /\ call.op = "add_slide"
    /\ ~IsError
    /\ call.layout = "ROW"
    /\ \E n \in DocNames \ {call.name} : before[n].exists
    /\ Len(NamedSlides) = Len(before[call.name].slides) + 1

(* C14: while the document of a name exists its slides change only by      *)
(* appending: over every step of every sequence of create, add_slide, save *)
(* and delete calls, a document that exists before and after the step      *)
(* keeps the slides it had as the first slides it has, a create on the     *)
(* name of an existing document included.                                  *)
C14_SlidesOnlyAppended ==
    [][\A n \in DocNames :
         (output[n].exists /\ output'[n].exists) =>
            /\ Len(output[n].slides) <= Len(output'[n].slides)
            /\ SubSeq(output'[n].slides, 1, Len(output[n].slides))
                 = output[n].slides]_vars

----------------------------------------------------------------------------
(* ppt_helpers.py: the layout of the sections of a slide.  A length is an  *)
(* integer number of units, PerHundredth units to the hundredth of an      *)
(* inch, so that every product with a size factor (size/100 or 1/N, N up   *)
(* to 6) is exact; the constants of the source are given in hundredths of  *)
(* an inch.  The sum of the factors of the sections before a section,      *)
(* times the total extent, is computed as the sum of their extents.        *)

PerHundredth == 100 * 60

Inch == 100 * PerHundredth

\* margin_x = 0.5
margin_x == 50
\* margin_y = 1.5
margin_y == 150
\* section_margin = 0.2
section_margin == 20
\* the 12.33 of total_width
content_width == 1233
\* the 5.0 of section_height and total_height
content_height == 500

Hundredths(h) == h * PerHundredth

\* Python int() of a length in inches: the whole inches, toward zero.
int(v) ==
    IF v >= 0 THEN (v \div Inch) * Inch ELSE 0 - (((0 - v) \div Inch) * Inch)

\* section.get('size', 100) / 100 if section.get('size') else
\* 1.0 / len(sections), as the fraction num / den
size_factor(section, n) ==
    IF Truthy(section.size) THEN [num |-> section.size[1], den |-> 100]
    ELSE [num |-> 1, den |-> n]

\* total * size_factor, total in hundredths of an inch
Times(total, f) ==
    IF total * f.num >= 0
    THEN (Hundredths(total) * f.num) \div f.den
    ELSE 0 - ((Hundredths(0 - total) * f.num) \div f.den)

Canvas == [width |-> content_width, height |-> content_height,
           margin_x |-> margin_x, margin_y |-> margin_y]

\* The arguments create_column_layout passes to create_section_box and to
\* add_section_content for each section, on a canvas.
column_regions(canvas, sections) ==
    LET n == Len(sections)
        total_margin_space == section_margin * (n - 1)
        total_width == canvas.width - total_margin_space
        section_height == Hundredths(canvas.height)
        width(i) == Times(total_width, size_factor(sections[i], n))
        previous(i) == SumSeq([j \in 1..(i - 1) |-> width(j)])
        start_x(i) == Hundredths(canvas.margin_x) + previous(i)
                        + Hundredths(section_margin) * (i - 1)
    IN  [i \in 1..n |->
           [x |-> start_x(i), y |-> Hundredths(canvas.margin_y),
            width |-> int(width(i)), height |-> int(section_height)]]

\* create_row_layout without the gap before each section.
row_regions_flush(canvas, sections) ==
    LET n == Len(sections)
        total_margin_space == section_margin * (n - 1)
        total_width == Hundredths(canvas.width)
        total_height == canvas.height - total_margin_space
        height(i) == Times(total_height, size_factor(sections[i], n))
        previous(i) == SumSeq([j \in 1..(i - 1) |-> height(j)])
        current_y(i) == Hundredths(canvas.margin_y) + previous(i)
    IN  [i \in 1..n |->
           [x |-> Hundredths(canvas.margin_x), y |-> current_y(i),
            width |-> total_width, height |-> height(i)]]

\* The arguments create_row_layout passes for each section.
row_regions(canvas, sections) ==
    LET n == Len(sections)
        total_margin_space == section_margin * (n - 1)
        total_width == Hundredths(canvas.width)
        total_height == canvas.height - total_margin_space
        height(i) == Times(total_height, size_factor(sections[i], n))
        previous(i) == SumSeq([j \in 1..(i - 1) |-> height(j)])
        current_y(i) == Hundredths(canvas.margin_y) + previous(i)
                          + Hundredths(section_margin) * (i - 1)
    IN  [i \in 1..n |->
           [x |-> Hundredths(canvas.margin_x), y |-> current_y(i),
            width |-> total_width, height |-> height(i)]]

\* The rectangle create_section_box adds.
create_section_box(start_x, start_y, width, height) ==
    [x |-> start_x, y |-> start_y, width |-> width, height |-> height]

\* The two text boxes add_section_content adds: header and content.
add_section_content(start_x, start_y, width, height) ==
    [header |-> [x |-> start_x + Hundredths(10), y |-> start_y + Hundredths(10),
                 width |-> width - Hundredths(20), height |-> Hundredths(50)],
     content |-> [x |-> start_x + Hundredths(10), y |-> start_y + Hundredths(70),
                  width |-> width - Hundredths(20),
                  height |-> height - Hundredths(80)]]

\* The shapes drawn for the regions: per section its box and its texts.
section_shapes(regions) ==
    [i \in 1..Len(regions) |->
       LET r == regions[i]
       IN  [box |-> create_section_box(r.x, r.y, r.width, r.height),
            text |-> add_section_content(r.x, r.y, r.width, r.height)]]

create_column_layout(sections) ==
    section_shapes(column_regions(Canvas, sections))

create_row_layout(sections) == section_shapes(row_regions(Canvas, sections))

\* The layout step of add_slide.
create_layout(columns, rows, sections) ==
    IF Truthy(columns) THEN create_column_layout(sections)
    ELSE IF Truthy(rows) THEN create_row_layout(sections)
         ELSE << >>

----------------------------------------------------------------------------
(* The layout of one slide: add_slide is called on the existing document   *)
(* "a" with a section list and the count of its sections as columns or as  *)
(* rows.  result.helper is the message add_slide raised (NoError when it   *)
(* added the slide), drawn the shapes it drew for the regions.             *)

LayoutSizes == {0, 2, 25, 50, 98, 100}

\* n sections sized 1 but the first, which takes the rest of 100
ManySized(n) == <<Sized(100 - (n - 1))>> \o [i \in 1..(n - 1) |-> Sized(1)]

\* n sections without size
ManyUnsized(n) == [i \in 1..n |-> Unsized]

LayoutSectionLists ==
    SeqsUpTo({Unsized} \cup {Sized(n) : n \in LayoutSizes}, MaxLayoutSections)
        \cup {ManySized(ManySections), ManyUnsized(CrowdedSections)}

InitLayout ==
    /\ output = [n \in DocNames |->
                   IF n = "a" THEN File(<<title_slide("P")>>) ELSE NoFile]
    /\ before = output
    /\ lifecycle = [n \in DocNames |-> IF n = "a" THEN "created" ELSE "none"]
    /\ \E direction \in {"columns", "rows"}, sections \in LayoutSectionLists :
         call = [NoCall EXCEPT
                   !.op = "layout", !.name = "a", !.title = "s",
                   !.layout = direction,
                   !.columns = IF direction = "columns"
                               THEN Some(Len(sections)) ELSE None,
                   !.rows = IF direction = "rows"
                            THEN Some(Len(sections)) ELSE None,
                   !.sections = sections]
    /\ result = [helper |-> "pending"]
    /\ drawn = << >>
    /\ NoConversation

LayoutAddSlide ==
    /\ result.helper = "pending"
    /\ LET r == add_slide(output, call.name, call.title, call.columns,
                          call.rows, call.sections)
       IN  /\ output' = r.out
           /\ result' = [helper |-> IF IsRaised(r.res) THEN r.res.raised
                                    ELSE NoError]
           /\ drawn' = IF IsRaised(r.res) THEN << >>
                       ELSE create_layout(call.columns, call.rows,
                                          call.sections)
    /\ before' = output
    /\ UNCHANGED <<call, lifecycle, agent_vars>>

NextLayout == LayoutAddSlide

SpecLayout == InitLayout /\ [][NextLayout]_vars

----------------------------------------------------------------------------
(* Properties of the layout (SpecLayout). *)

\* add_slide has drawn the slide of a section list that SlideModel accepts
\* as well
LaidOut ==
    /\ call.op = "layout"
    /\ result.helper = NoError
    /\ SlideModel(call.columns, call.rows, call.sections) = NoError

NumSections == Len(call.sections)

\* the fraction f_i of the tiling extent the spec gives section i
Fraction(i) ==
    IF call.sections[i].has_size /\ call.sections[i].size # None
    THEN [num |-> call.sections[i].size[1], den |-> 100]
    ELSE [num |-> 1, den |-> NumSections]

\* the usable extent along the tiling axis, in hundredths of an inch
UsableExtent ==
    (IF call.layout = "columns" THEN content_width ELSE content_height)
        - section_margin * (NumSections - 1)

\* extent and origin of region i along the tiling axis, as passed on
Extent(i) ==
    IF call.layout = "columns" THEN drawn[i].box.width ELSE drawn[i].box.height

Origin(i) ==
    IF call.layout = "columns" THEN drawn[i].box.x ELSE drawn[i].box.y

(* C15: a slide of exactly one section gets exactly one region, and its    *)
(* extent along the tiling axis is the full usable extent, 12.33 inches    *)
(* wide in columns and 5.0 inches high in rows, whatever size the section  *)
(* declares and when it declares none.                                     *)
C15_SingleSectionFullExtent ==
    (LaidOut /\ NumSections = 1) =>
        /\ Len(drawn) = 1
        /\ Extent(1) = Hundredths(IF call.layout = "columns"
                                  THEN content_width ELSE content_height)

(* C16: with no sections no region is laid out or drawn: both layouts      *)
(* yield no shape for the empty list, and an add_slide tool call with an   *)
(* empty section list that succeeds, whatever its layout value, appends a  *)
(* slide that has its title and no region.                                 *)
C16_NoSectionsTitleOnly ==
    /\ create_column_layout(<< >>) = << >>
    /\ create_row_layout(<< >>) = << >>
    /\ (call.op = "add_slide" /\ call.sections = << >> /\ ~IsError) =>
          /\ Len(NamedSlides) = Len(before[call.name].slides) + 1
          /\ NamedSlides[Len(NamedSlides)]
               = [title |-> call.title, layout |-> "basic"]

\* an add_slide in columns with an empty section list has succeeded
C16_Witness ==
    /\ call.op = "add_slide"
    /\ call.layout = "COLUMN"
    /\ call.sections = << >>
    /\ ~IsError
    /\ Len(NamedSlides) = Len(before[call.name].slides) + 1

\* the origins of the regions are those of the formula and increase
OriginsInOrder ==
    /\ Len(drawn) = NumSections
    /\ \A i \in 1..NumSections :
         Origin(i) =
            Hundredths(IF call.layout = "columns" THEN margin_x ELSE margin_y)
            + SumSeq([j \in 1..(i - 1) |-> Times(UsableExtent, Fraction(j))])
            + Hundredths(section_margin) * (i - 1)
    /\ \A i \in 1..(NumSections - 1) : Origin(i) < Origin(i + 1)

SwappedCanvas == [width |-> content_height, height |-> content_width,
                  margin_x |-> margin_y, margin_y |-> margin_x]

(* C18: the layout is symmetric in direction: the regions the row layout   *)
(* passes to the renderer are the transpose of the regions the column      *)
(* layout passes for the same list on the canvas with width and height     *)
(* swapped: as many regions, in the same order, each with the same extent  *)
(* along the tiling axis, the same cross extent and the same area.         *)
C18_DirectionSymmetric ==
    LET transposed == column_regions(SwappedCanvas, call.sections)
    IN  (LaidOut /\ call.layout = "rows") =>
            /\ Len(drawn) = Len(transposed)
            /\ \A i \in 1..Len(drawn) :
                 /\ drawn[i].box.height = transposed[i].width
                 /\ drawn[i].box.width = transposed[i].height
                 /\ drawn[i].box.y = transposed[i].x
                 /\ drawn[i].box.height * drawn[i].box.width
                      = transposed[i].width * transposed[i].height

(* C19: in columns the box drawn for region i of N is                      *)
(* (12.33 - 0.2 * (N - 1)) * f_i inches wide, f_i being size_i / 100 for   *)
(* sized sections and 1 / N otherwise, and its text areas have the width   *)
(* add_section_content leaves inside that box.                             *)
C19_ColumnWidths ==
    (LaidOut /\ call.layout = "columns") =>
        \A i \in 1..Len(drawn) :
           LET width == Times(UsableExtent, Fraction(i))
           IN  /\ drawn[i].box.width = width
               /\ drawn[i].text
                    = add_section_content(drawn[i].box.x, drawn[i].box.y,
                                          width, drawn[i].box.height)

----------------------------------------------------------------------------
(* ppt_creation_agent.py: the loop of create_presentation_from_prompt.     *)
(* One step is one pass of the loop: a request to the model (whose answer  *)
(* is any of the answers below), the call of the tool function it names,   *)
(* and the messages appended.  messages is the list sent with the next     *)
(* request: the function message has the name and the response of the      *)
(* call, the assistant message the function call the model asked for       *)
(* (NoFunctionCall in a plain reply) and the finish_reason that came with  *)
(* it.  pc is "loop" while the function runs, "returned" once it has       *)
(* returned presentation_data and "raised" once it has raised.             *)

NoFunctionCall == [name |-> "None"]

UserMessage == [role |-> "user"]

FunctionMessage(function_name, function_response) ==
    [role |-> "function", name |-> function_name,
     content |-> function_response]

AssistantMessage(function_call, finish_reason) ==
    [role |-> "assistant", function_call |-> function_call,
     finish_reason |-> finish_reason]

\* requests answered so far
Requests ==
    Len(SelectSeq(messages, LAMBDA m : m.role = "assistant"))

\* names the model gives the presentation it creates
CreateNames == {"", "a"}

\* names the model asks to save
SaveNames == {"a", "b"}

\* layouts and section lists the model gives a slide
AgentLayouts == {"None", "COLUMN"}

InitAgent ==
    /\ output = [n \in DocNames |-> NoFile]
    /\ before = output
    /\ call = NoCall
    /\ result = Returned("None")
    /\ lifecycle = [n \in DocNames |-> "none"]
    /\ drawn = << >>
    /\ presentation_data = [status |-> "in_progress"]
    /\ messages = <<UserMessage>>
    /\ pc = "loop"

\* the test of the while loop, and the bound on the requests
Looping ==
    /\ pc = "loop"
    /\ presentation_data.status \in {"in_progress", "error"}
    /\ Requests < MaxRequests

\* The pass of a function call going on whatever the function was.
Called_never_completed(function_name, arguments, r, status) ==
    /\ Looping
    /\ output' = r.out
    /\ presentation_data' = r.res @@ [status |-> "in_progress"]
    /\ messages' = messages \o
         << FunctionMessage(function_name, r.res),
            AssistantMessage([name |-> function_name,
                              arguments |-> arguments], "function_call") >>
    /\ UNCHANGED <<before, call, result, lifecycle, drawn, pc>>

\* A pass in which the model called one of the four functions: r is what
\* the function did (r.out the directory it left, r.res the dictionary it
\* returned) and status the status the loop sets next to that dictionary.
Called(function_name, arguments, r, status) ==
    /\ Looping
    /\ output' = r.out
    /\ presentation_data' = r.res @@ [status |-> status]
    /\ messages' = messages \o
         << FunctionMessage(function_name, r.res),
            AssistantMessage([name |-> function_name,
                              arguments |-> arguments], "function_call") >>
    /\ UNCHANGED <<before, call, result, lifecycle, drawn, pc>>

CallCreatePresentation ==
    \E name \in CreateNames, title \in PresTitles :
        Called("create_presentation", [name |-> name, title |-> title],
               create_presentation(output, name, title, << >>),
               "in_progress")

CallAddSlide ==
    \E layout \in AgentLayouts :
        Called("add_slide",
               [ppt_name |-> "a", slide_title |-> "s", layout |-> layout,
                sections |-> <<Unsized>>],
               tool_add_slide(output, "a", "s", None, None, layout,
                              <<Unsized>>),
               "in_progress")

CallSavePresentation ==
    \E name \in SaveNames :
        Called("save_presentation", [name |-> name],
               save_presentation(output, name), "completed")

CallDeletePresentation ==
    Called("delete_presentation", [name |-> "a"],
           delete_presentation(output, "a"), "completed")

\* The model named a function that is none of the four: nothing is called
\* and the function message carries null.
CallUnknown ==
    /\ Looping
    /\ messages' = messages \o
         << FunctionMessage("unknown", None),
            AssistantMessage([name |-> "unknown", arguments |-> << >>],
                             "function_call") >>
    /\ UNCHANGED <<output, before, call, result, lifecycle, drawn,
                   presentation_data, pc>>

\* The arguments do not fit the function (a TypeError of the call itself):
\* the inner handler makes it the error of the pass.
CallRejected ==
    /\ Looping
    /\ \E function_name \in ToolOps :
         /\ presentation_data' = [status |-> "error", error |-> "TypeError"]
         /\ messages' = messages \o
              << FunctionMessage(function_name, [error |-> "TypeError"]),
                 AssistantMessage([name |-> function_name,
                                   arguments |-> << >>], "function_call") >>
    /\ UNCHANGED <<output, before, call, result, lifecycle, drawn, pc>>

\* A reply without a function call.
Reply ==
    /\ Looping
    /\ \E finish_reason \in {"stop", "length"} :
         /\ presentation_data' =
               IF finish_reason = "stop"
               THEN [presentation_data EXCEPT !.status = "completed"]
               ELSE presentation_data
         /\ messages' = Append(messages, AssistantMessage(NoFunctionCall,
                                                          finish_reason))
    /\ UNCHANGED <<output, before, call, result, lifecycle, drawn, pc>>

\* The request raised, or json.loads raised on the arguments of the
\* function call: the outer handler raises it again.
RequestRaises ==
    /\ Looping
    /\ pc' = "raised"
    /\ UNCHANGED <<output, before, call, result, lifecycle, drawn,
                   presentation_data, messages>>

\* The loop has ended: presentation_data is returned.
ReturnData ==
    /\ pc = "loop"
    /\ presentation_data.status \notin {"in_progress", "error"}
    /\ pc' = "returned"
    /\ UNCHANGED <<output, before, call, result, lifecycle, drawn,
                   presentation_data, messages>>

NextAgent ==
    \/ CallCreatePresentation
    \/ CallAddSlide
    \/ CallSavePresentation
    \/ CallDeletePresentation
    \/ CallUnknown
    \/ CallRejected
    \/ Reply
    \/ RequestRaises
    \/ ReturnData

SpecAgent == InitAgent /\ [][NextAgent]_vars

----------------------------------------------------------------------------
(* Properties of the conversation (SpecAgent). *)

\* the function calls the model made, and the responses they got, in order
FunctionCalls ==
    SelectSeq(messages, LAMBDA m : m.role = "assistant"
                                   /\ m.function_call # NoFunctionCall)

FunctionResponses == SelectSeq(messages, LAMBDA m : m.role = "function")

\* The conversation began with a create_presentation that succeeded, went
\* on with add_slide calls only, and has ended by a save_presentation of
\* the created name or by a final reply.
CreatedThenEnded ==
    /\ pc = "returned"
    /\ Len(FunctionCalls) >= 1
    /\ FunctionCalls[1].function_call.name = "create_presentation"
    /\ "file_path" \in DOMAIN FunctionResponses[1].content
    /\ \A i \in 2..Len(FunctionCalls) :
         LET c == FunctionCalls[i].function_call
         IN  \/ c.name = "add_slide"
             \/ /\ i = Len(FunctionCalls)
                /\ c.name = "save_presentation"
                /\ c.arguments.name
                     = FunctionCalls[1].function_call.arguments.name

(* C20: a conversation in which create_presentation succeeds and that then *)
(* ends, by a save_presentation call or by a final reply with              *)
(* finish_reason 'stop', with any number of add_slide calls in between,    *)
(* returns a result of status 'completed' that has a file_path.            *)
C20_CompletedWithFilePath ==
    CreatedThenEnded =>
        /\ presentation_data.status = "completed"
        /\ "file_path" \in DOMAIN presentation_data

----------------------------------------------------------------------------
(* One create call: create_presentation, or create_ppt_from_json, is       *)
(* called once with a name, a title and an initial slide list, on an       *)
(* output directory that is empty or holds a document "a" of two slides.   *)
(* call.op names the function; result is Returned("None") until the call   *)
(* has returned.                                                           *)

CreateTitles == {"P", "Q"}

\* Slide dictionaries of one create call: title-only slides under three
\* titles and without title, a slide of one section under each layout key
\* and without layout key, and one whose sizes do not sum to 100.
CreateSlideDicts ==
    { [slide_title |-> t, layout |-> "None", columns |-> None,
       rows |-> None, sections |-> << >>] : t \in {"", "s", "t", "u"} }
    \cup
    { [slide_title |-> "t", layout |-> "rows", columns |-> None,
       rows |-> Some(1), sections |-> <<Unsized>>],
      [slide_title |-> "u", layout |-> "columns", columns |-> Some(1),
       rows |-> None, sections |-> <<Sized(100)>>],
      [slide_title |-> "s", layout |-> "None", columns |-> None,
       rows |-> None, sections |-> <<Unsized>>],
      [slide_title |-> "s", layout |-> "None", columns |-> None,
       rows |-> None, sections |-> <<Sized(50)>>] }

InitCreate ==
    /\ \E found \in {<< >>, <<title_slide("Q"),
                                [title |-> "s", layout |-> "basic"]>>} :
         output = [n \in DocNames |->
                     IF n = "a" /\ found # << >> THEN File(found) ELSE NoFile]
    /\ before = output
    /\ lifecycle = [n \in DocNames |->
                      IF output[n].exists THEN "created" ELSE "none"]
    /\ \E op \in {"create_presentation", "create_ppt_from_json"},
          name \in ArgNames, title \in CreateTitles,
          slides \in SeqsUpTo(CreateSlideDicts, MaxCreateSlides) :
         call = [NoCall EXCEPT !.op = op, !.name = name,
                               !.title = title, !.slides = slides]
    /\ result = Returned("None")
    /\ drawn = << >>
    /\ NoConversation

CreateOnce ==
    /\ call.op = "create_presentation"
    /\ result = Returned("None")
    /\ LET r == create_presentation(output, call.name, call.title,
                                    call.slides)
       IN  /\ output' = r.out
           /\ result' = r.res
    /\ before' = output
    /\ UNCHANGED <<call, lifecycle, drawn, agent_vars>>

CreateFromJsonOnce ==
    /\ call.op = "create_ppt_from_json"
    /\ result = Returned("None")
    /\ LET r == create_ppt_from_json(output, call.name, call.title,
                                    call.slides)
       IN  /\ output' = r.out
           /\ result' = r.res
    /\ before' = output
    /\ UNCHANGED <<call, lifecycle, drawn, agent_vars>>

NextCreate == CreateOnce \/ CreateFromJsonOnce

SpecCreate == InitCreate /\ [][NextCreate]_vars

----------------------------------------------------------------------------
(* Properties of one create call (SpecCreate). *)

(* C12: a successful create leaves, under the name, a document of exactly  *)
(* 1 + len(slides) slides: the title slide with the given title first,     *)
(* then one slide per input slide, in input order, each with the title of  *)
(* its input slide.                                                        *)
C12_CreateSeedsSlides ==
    (call.op = "create_presentation" /\ "file_path" \in DOMAIN result) =>
        /\ path_exists(output, call.name)
        /\ Len(NamedSlides) = 1 + Len(call.slides)
        /\ NamedSlides[1] = title_slide(call.title)
        /\ \A i \in 1..Len(call.slides) :
             /\ NamedSlides[i + 1].title = call.slides[i].slide_title
             /\ NamedSlides[i + 1].layout # "title"

\* a create with initial slides of three titles, over an existing
\* document, has succeeded
C12_Witness ==
    /\ call.op = "create_presentation"
    /\ "file_path" \in DOMAIN result
    /\ path_exists(before, call.name)
    /\ Len(call.slides) = 3
    /\ call.slides[1].slide_title # call.slides[2].slide_title
    /\ call.slides[2].slide_title # call.slides[3].slide_title
    /\ call.slides[1].slide_title # call.slides[3].slide_title
    /\ Len(NamedSlides) = 4

----------------------------------------------------------------------------
(* Properties of failing calls (Spec). *)

(* C21: add_slide tests its required fields before anything else: with an  *)
(* empty presentation name the error is 'ppt_name is required', with a     *)
(* name and an empty slide title it is 'slide_title is required', whether  *)
(* or not the named document exists and whatever the sections are, and no  *)
(* document is modified.                                                   *)
C21_RequiredFieldsFirst ==
    call.op = "add_slide" =>
        /\ call.name = ""
             => (result = [error |-> "ppt_name is required"]
                 /\ output = before)
        /\ (call.name # "" /\ call.title = "")
             => (result = [error |-> "slide_title is required"]
                 /\ output = before)

\* a slide without title, with sections that do not sum to 100, was asked
\* for a name that has no document while another document exists
C21_Witness ==
    /\ call.op = "add_slide"
    /\ call.name = "b"
    /\ call.title = ""
    /\ ~path_exists(before, "b")
    /\ path_exists(before, "a")
    /\ call.layout = "COLUMN"
    /\ call.sections = <<Sized(50)>>
    /\ result = [error |-> "slide_title is required"]

----------------------------------------------------------------------------
(* One add_slide call: the helper is called once, with any name, title,    *)
(* counts and sections, on an output directory that is empty, holds        *)
(* document "a" or holds both documents.  result is Returned("None")       *)
(* until the call has returned, then the exception raised or               *)
(* Returned("added").                                                      *)

AddDims == {None} \cup {Some(k) : k \in 0..MaxAddSections}

AddSectionLists ==
    SeqsUpTo({Unsized, NullSized, Sized(50), Sized(100)}, MaxAddSections)

\* the directories the call finds
FoundDirectories ==
    LET two == File(<<title_slide("P"), [title |-> "s", layout |-> "basic"]>>)
        one == File(<<title_slide("Q")>>)
    IN  { [n \in DocNames |-> NoFile],
          [n \in DocNames |-> IF n = "a" THEN two ELSE NoFile],
          [n \in DocNames |-> IF n = "a" THEN two ELSE one] }

InitAddSlide ==
    /\ output \in FoundDirectories
    /\ before = output
    /\ lifecycle = [n \in DocNames |->
                      IF output[n].exists THEN "created" ELSE "none"]
    /\ \E name \in ArgNames, slide_title \in SlideTitles,
          columns \in AddDims, rows \in AddDims,
          sections \in AddSectionLists :
         call = [NoCall EXCEPT !.op = "helper_add_slide", !.name = name,
                               !.title = slide_title, !.columns = columns,
                               !.rows = rows, !.sections = sections]
    /\ result = Returned("None")
    /\ drawn = << >>
    /\ NoConversation

AddSlideOnce ==
    /\ result = Returned("None")
    /\ LET r == add_slide(output, call.name, call.title, call.columns,
                          call.rows, call.sections)
       IN  /\ output' = r.out
           /\ result' = IF IsRaised(r.res) THEN r.res ELSE Returned("added")
    /\ before' = output
    /\ UNCHANGED <<call, lifecycle, drawn, agent_vars>>

NextAddSlide == AddSlideOnce

SpecAddSlide == InitAddSlide /\ [][NextAddSlide]_vars

----------------------------------------------------------------------------
(* Properties of one add_slide call (SpecAddSlide). *)

(* C27: an add_slide that fails leaves the output directory unchanged:     *)
(* whichever check raises (required field, missing document, both counts,  *)
(* section count, sizing), the slides of the named document and every      *)
(* other document are as the call found them.                              *)
C27_FailedAddSlideNoChange ==
    (call.op = "helper_add_slide" /\ IsRaised(result)) => output = before

\* an add_slide on an existing document of two slides has failed on the
\* sum of its sizes, the other document existing
C27_Witness ==
    /\ call.op = "helper_add_slide"
    /\ call.name = "a"
    /\ result = Raised("Section sizes must sum to approximately 100%")
    /\ Len(before["a"].slides) = 2
    /\ before["b"].exists
    /\ output = before

----------------------------------------------------------------------------
(* Properties of the two create entry points (SpecCreate). *)

(* C22: create_ppt_from_json is equivalent to create_ppt: called with the  *)
(* same name, title and slide dictionaries on the same directory, it ends  *)
(* the same way (both return or both raise) and leaves the same documents  *)
(* with the same slides.                                                   *)
C22_JsonEquivalentToCreate ==
    LET r == create_ppt(before, call.name, call.title, call.slides)
    IN  (call.op = "create_ppt_from_json" /\ result # Returned("None")) =>
            /\ IsRaised(result) <=> IsRaised(r.res)
            /\ output = r.out

(* C28: create_ppt is all-or-nothing: when the create fails, whatever the  *)
(* reason, no document of the name has been created or modified.           *)
C28_CreateAllOrNothing ==
    (call.op = "create_presentation" /\ IsError) => output = before

----------------------------------------------------------------------------
(* ppt_helpers.py: the texts add_section_content writes.  A text frame is  *)
(* the sequence of the texts of its paragraphs; the frame of a text box    *)
(* just added holds one empty paragraph.                                   *)

\* the text_frame of the box add_textbox returns
new_text_frame == <<"">>

\* header_frame.text = section['header']
set_text(frame, text) == <<text>>

\* while len(content_frame.paragraphs) > 0: remove paragraphs[0]
RECURSIVE clear_paragraphs(_)
clear_paragraphs(frame) ==
    IF Len(frame) > 0 THEN clear_paragraphs(Tail(frame)) ELSE frame

\* the prefix of a content line, the literal of line 260 and a space
bullet == "(bullet) "

\* for item in section['content']: add_paragraph with the prefixed item
RECURSIVE add_paragraphs(_, _)
add_paragraphs(frame, content) ==
    IF content = << >> THEN frame
    ELSE add_paragraphs(Append(frame, bullet \o Head(content)), Tail(content))

\* add_section_content leaving the paragraph the fresh frame starts with.
section_texts_uncleared(section) ==
    [header |-> set_text(new_text_frame, section.header),
     content |-> add_paragraphs(new_text_frame, section.content)]

\* The frames of the header box and of the content box of one section.
section_texts(section) ==
    [header |-> set_text(new_text_frame, section.header),
     content |-> add_paragraphs(clear_paragraphs(new_text_frame),
                                section.content)]

----------------------------------------------------------------------------
(* The rendering of one section: add_section_content is called once with   *)
(* a section of a header and up to MaxContent content lines.  drawn is     *)
(* then the text frames it has written.                                    *)

ContentLines == {"", "x", "y"}

InitRender ==
    /\ output = [n \in DocNames |->
                   IF n = "a" THEN File(<<title_slide("P")>>) ELSE NoFile]
    /\ before = output
    /\ lifecycle = [n \in DocNames |-> IF n = "a" THEN "created" ELSE "none"]
    /\ \E header \in {"", "h"}, content \in SeqsUpTo(ContentLines, MaxContent) :
         call = [NoCall EXCEPT
                   !.op = "add_section_content", !.name = "a",
                   !.sections = <<[header |-> header, content |-> content]>>]
    /\ result = Returned("None")
    /\ drawn = << >>
    /\ NoConversation

RenderSection ==
    /\ result = Returned("None")
    /\ drawn' = <<section_texts(call.sections[1])>>
    /\ result' = Returned("rendered")
    /\ UNCHANGED <<output, before, call, lifecycle, agent_vars>>

NextRender == RenderSection

SpecRender == InitRender /\ [][NextRender]_vars

----------------------------------------------------------------------------
(* Properties of the rendering (SpecRender). *)

Rendered == call.op = "add_section_content" /\ result = Returned("rendered")

----------------------------------------------------------------------------
(* Properties of the passes of the loop (SpecAgent). *)

\* message i is the function message of a tool that returned an error
ToolError(i) ==
    /\ messages[i].role = "function"
    /\ messages[i].name \in ToolOps
    /\ "error" \in DOMAIN messages[i].content

(* C24: a tool call of the loop that yields an error payload is followed   *)
(* by a further request to the model: the error is in the conversation,    *)
(* and the function does not return before the model has answered again.   *)
C24_ErrorGetsFurtherRequest ==
    pc = "returned" =>
        \A i \in 1..Len(messages) :
            ToolError(i) =>
                \E j \in (i + 2)..Len(messages) : messages[j].role = "assistant"

\* Assistant message i is a call of save_presentation or
\* delete_presentation, whether the call returned or raised.
SaveOrDeleteCall(i) ==
    /\ messages[i].role = "assistant"
    /\ messages[i].function_call.name
           \in {"save_presentation", "delete_presentation"}

\* Assistant message i is a reply without function call that came with
\* finish_reason 'stop'.
StopReply(i) ==
    /\ messages[i].role = "assistant"
    /\ messages[i].function_call = NoFunctionCall
    /\ messages[i].finish_reason = "stop"

\* The call of assistant message i returned: what the inner handler puts
\* in the function message of a call that raised is not what it got.
CallReturned(i) == messages[i - 1].content # [error |-> "TypeError"]

EndingAsStated(i) == SaveOrDeleteCall(i) \/ StopReply(i)

EndingPass(i) == (SaveOrDeleteCall(i) /\ CallReturned(i)) \/ StopReply(i)

\* The loop goes on after every answer but those of Ending: after one of
\* those the status is 'completed', no further request is made and the
\* function returns; after any other the status keeps the loop going, and
\* nothing but the bound of the model on the requests stops it.
LoopEndsOnlyOn(Ending(_)) ==
    LET n == Len(messages)
    IN  /\ \A i \in 1..(n - 1) : ~Ending(i)
        /\ (Requests >= 1 /\ Ending(n)) =>
              /\ presentation_data.status = "completed"
              /\ ~Looping
              /\ pc \in {"loop", "returned"}
        /\ (Requests >= 1 /\ ~Ending(n)) =>
              /\ presentation_data.status \in {"in_progress", "error"}
              /\ pc # "returned"
              /\ (pc = "loop" /\ Requests < MaxRequests) => Looping
        /\ pc = "returned" => (Requests >= 1 /\ Ending(n))

----------------------------------------------------------------------------
(* Properties of the shapes of the regions (SpecLayout). *)

(* C29: the regions of one slide never overlap: for every validated        *)
(* section list and every two consecutive regions i and i + 1, the origin  *)
(* of i + 1 along the tiling axis is at least the origin of i plus the     *)
(* extent passed to the renderer for i (its width in columns, its height   *)
(* in rows) plus 0.2 inches, also when the sizes sum to more than 100.     *)
C29_RegionsDoNotOverlap ==
    LaidOut =>
        \A i \in 1..(NumSections - 1) :
            Origin(i + 1) >= Origin(i) + Extent(i) + Hundredths(section_margin)

(* C30: every shape drawn for a region has strictly positive dimensions:   *)
(* for every validated list of one or more sections, in columns and in     *)
(* rows, the width and height of the box passed to create_section_box are  *)
(* above 0, and so are the width of the header block (width - 0.2) and the *)
(* height of the content block (height - 0.8).                             *)
C30_ShapesArePositive ==
    (LaidOut /\ NumSections >= 1) =>
        \A i \in 1..Len(drawn) :
            /\ drawn[i].box.width > 0
            /\ drawn[i].box.height > 0
            /\ drawn[i].text.header.width > 0
            /\ drawn[i].text.content.height > 0

----------------------------------------------------------------------------
(* add_slide calls that run at the same time.  A call is in two steps: it  *)
(* tests its arguments and opens the file, which reads the whole document  *)
(* into memory, and later it adds its slide to the document in memory and  *)
(* saves it, which writes the whole file.  Nothing holds the file between  *)
(* the two.  Here call, result and drawn are per caller: the arguments,    *)
(* how far the call is and the document it holds in memory; before is the  *)
(* directory the callers started on and lifecycle the log of their steps.  *)

Callers == 1..MaxCallers

ConcurrentTitles == {"s", "t"}

\* Presentation(file_path): the slides of the file as it is now.
Presentation(out, name) == out[name].slides

\* prs.save appending the last slide of prs to the file as it is now.
prs_save_merging(out, name, prs) ==
    [out EXCEPT ![name] = File(Append(out[name].slides, prs[Len(prs)]))]

\* prs.save(file_path): the file becomes the document in memory.
prs_save(out, name, prs) == [out EXCEPT ![name] = File(prs)]

Step(c, step) == [caller |-> c, step |-> step]

InitConcurrent ==
    /\ output = [n \in DocNames |->
                   IF n = "a" THEN File(<<title_slide("P")>>) ELSE NoFile]
    /\ before = output
    /\ lifecycle = << >>
    /\ call \in [Callers ->
                   { [NoCall EXCEPT !.op = "helper_add_slide", !.name = name,
                                    !.title = slide_title,
                                    !.columns = columns,
                                    !.sections = IF columns = None THEN << >>
                                                 ELSE <<Unsized>>] :
                       name \in DocNames, slide_title \in ConcurrentTitles,
                       columns \in {None, Some(1)} }]
    /\ result = [c \in Callers |-> [step |-> "called"]]
    /\ drawn = [c \in Callers |-> << >>]
    /\ NoConversation

\* the checks of caller c, on the directory as it is now
CallerChecks(c) ==
    add_slide_checks(path_exists(output, call[c].name), call[c].name,
                     call[c].title, call[c].columns, call[c].rows,
                     call[c].sections)

\* A call fails one of its checks and raises.
AddSlideRaises ==
    \E c \in Callers :
        /\ result[c] = [step |-> "called"]
        /\ CallerChecks(c) # NoError
        /\ result' = [result EXCEPT ![c] = Raised(CallerChecks(c))]
        /\ lifecycle' = Append(lifecycle, Step(c, "raise"))
        /\ UNCHANGED <<output, before, call, drawn, agent_vars>>

\* A call passes its checks and opens the file.
AddSlideOpens ==
    \E c \in Callers :
        /\ result[c] = [step |-> "called"]
        /\ CallerChecks(c) = NoError
        /\ drawn' = [drawn EXCEPT ![c] = Presentation(output, call[c].name)]
        /\ result' = [result EXCEPT ![c] = [step |-> "opened"]]
        /\ lifecycle' = Append(lifecycle, Step(c, "open"))
        /\ UNCHANGED <<output, before, call, agent_vars>>

\* A call that has opened the file adds its slide and saves.
AddSlideSaves ==
    \E c \in Callers :
        /\ result[c] = [step |-> "opened"]
        /\ LET prs == saved_slides(drawn[c],
                                   new_slide(call[c].title, call[c].columns,
                                             call[c].rows, call[c].sections))
           IN  /\ drawn' = [drawn EXCEPT ![c] = prs]
               /\ output' = prs_save(output, call[c].name, prs)
        /\ result' = [result EXCEPT ![c] = Returned("None")]
        /\ lifecycle' = Append(lifecycle, Step(c, "save"))
        /\ UNCHANGED <<before, call, agent_vars>>

NextConcurrent == AddSlideRaises \/ AddSlideOpens \/ AddSlideSaves

SpecConcurrent == InitConcurrent /\ [][NextConcurrent]_vars

----------------------------------------------------------------------------
(* Properties of add_slide calls at the same time (SpecConcurrent). *)

AllReturned == \A c \in Callers : result[c] \notin {[step |-> "called"],
                                                    [step |-> "opened"]}

Succeeded(c) == result[c] = Returned("None")

\* where in the log caller c took the step
StepAt(c, step) ==
    CHOOSE i \in 1..Len(lifecycle) : lifecycle[i] = Step(c, step)

HasOpened(c) == \E i \in 1..Len(lifecycle) : lifecycle[i] = Step(c, "open")

\* c and d are two calls on one name that both opened the file before
\* either of them saved it
BothOpenBeforeEitherSaves(c, d) ==
    /\ c # d
    /\ call[c].name = call[d].name
    /\ HasOpened(c) /\ HasOpened(d)
    /\ Succeeded(c) => StepAt(d, "open") < StepAt(c, "save")
    /\ Succeeded(d) => StepAt(c, "open") < StepAt(d, "save")

\* the callers that added a slide to document n, and the slide of each
Adders(n) == {c \in Callers : Succeeded(c) /\ call[c].name = n}

CallerSlide(c) ==
    new_slide(call[c].title, call[c].columns, call[c].rows, call[c].sections)

\* the calls on document n ran one after the other
Serialized(n) ==
    \A c \in Adders(n), d \in Adders(n) : ~BothOpenBeforeEitherSaves(c, d)

\* how many of the calls that added to n had saved when c saved, c included
SaveRank(n, c) ==
    Cardinality({d \in Adders(n) : StepAt(d, "save") <= StepAt(c, "save")})

(* C25: add_slide reads, changes and writes the whole file and holds no    *)
(* lock.  When the calls on one name run one after the other, the final    *)
(* document has the slides it had before and then the slide of every call  *)
(* that succeeded, in the order of the calls.  When two calls on one name  *)
(* both open the file before either saves, both report success and the     *)
(* final document has fewer new slides than calls succeeded: with two      *)
(* calls it has one new slide, that of the call that saved last.           *)
C25_LostUpdate ==
    AllReturned =>
        \A n \in DocNames :
            LET old == Len(before[n].slides)
                new == output[n].slides
            IN  /\ Serialized(n) =>
                      /\ Len(new) = old + Cardinality(Adders(n))
                      /\ \A i \in 1..old : new[i] = before[n].slides[i]
                      /\ \A c \in Adders(n) :
                           new[old + SaveRank(n, c)] = CallerSlide(c)
                /\ \A c \in Callers, d \in Callers :
                      (/\ call[c].name = n
                       /\ BothOpenBeforeEitherSaves(c, d)
                       /\ StepAt(c, "save") < StepAt(d, "save")) =>
                          /\ Succeeded(c) /\ Succeeded(d)
                          /\ Len(new) < old + Cardinality(Adders(n))
                          /\ (Cardinality(Adders(n)) = 2) =>
                                new = Append(before[n].slides, CallerSlide(d))

\* two calls with different titles have both opened document a before
\* either saved, both have returned, and one new slide is in the document
C25_Witness ==
    /\ AllReturned
    /\ BothOpenBeforeEitherSaves(1, 2)
    /\ call[1].name = "a"
    /\ call[1].title # call[2].title
    /\ Succeeded(1) /\ Succeeded(2)
    /\ Len(output["a"].slides) = Len(before["a"].slides) + 1

=============================================================================
